---- MODULE Spec2Model ----
(***************************************************************************)
(* Calorie burn dashboard (src/app.py): the numeric core                   *)
(* (calculate_max_heart_rate, get_intensity_zone, the burn-rate, BMI and   *)
(* recommendation code of the ANALYZE branch) and the script run that      *)
(* wraps it.                                                               *)
(*                                                                         *)
(* Numbers.  Python's floats are modelled by exact rationals n/d (d > 0)   *)
(* plus the IEEE specials inf, -inf and nan.  On the integer inputs the    *)
(* program handles, every comparison the code makes against 50..90, 7, 10, *)
(* 18.5 and 24.9 has the same outcome in binary64 as in exact arithmetic.  *)
(***************************************************************************)
EXTENDS Integers, Sequences, FiniteSets, TLC

VARIABLES
    disk,             \* calories_model.pkl and metrics.pkl: 0 absent, else a version
    cache,            \* the st.cache_resource entry of load_model
    gender, age, height, weight, duration, heart_rate, body_temp,  \* widget state
    widgets_on_page,  \* the session has rendered the input widgets and button
    predict_btn,      \* what st.button returns in this run
    pc,               \* position of the script run
    error,            \* exception that ended the run
    model, metrics,   \* the module globals bound at line 221
    max_hr, hr_percentage,
    input_data, prediction, report,
    log,              \* calls made by this run, in order
    shown,            \* what this run has put on the page
    fn_call,          \* last direct application of a function
    fn_prev,          \* an earlier application, kept for comparison
    fn_between        \* applications to other arguments since fn_prev

\* ------------------------------------------------------------------------
\* Float values
\* ------------------------------------------------------------------------
Num(n, d) == [kind |-> "num", n |-> n, d |-> d]
PosInf == [kind |-> "inf", n |-> 1, d |-> 1]
NegInf == [kind |-> "ninf", n |-> -1, d |-> 1]
NaN == [kind |-> "nan", n |-> 0, d |-> 1]
\* a name that was never assigned
Unset == [kind |-> "unset", n |-> 0, d |-> 1]

\* a / b with the sign carried by the numerator (b # 0)
Ratio(a, b) == IF b > 0 THEN Num(a, b) ELSE Num(-a, -b)

\* outcome of an expression: a value, or the exception it raised
Value(v) == [raised |-> "none", value |-> v]
Raise(e) == [raised |-> e, value |-> Unset]

\* a division that signals nothing: IEEE inf / nan on a zero divisor
PyTrueDiv_ieee(a, b) ==
    IF b = 0 THEN Value(IF a > 0 THEN PosInf ELSE IF a < 0 THEN NegInf ELSE NaN)
    ELSE Value(Ratio(a, b))

\* int / int (Python true division): ZeroDivisionError on a zero divisor
PyTrueDiv(a, b) == IF b = 0 THEN Raise("ZeroDivisionError") ELSE Value(Ratio(a, b))

\* numpy.float64 / int: IEEE division, a zero divisor gives inf, -inf or nan
NpTrueDiv(x, b) ==
    IF x.kind # "num" THEN
        (IF x.kind = "nan" THEN NaN
         ELSE IF b >= 0 THEN x
         ELSE IF x.kind = "inf" THEN NegInf ELSE PosInf)
    ELSE IF b = 0 THEN
        (IF x.n > 0 THEN PosInf ELSE IF x.n < 0 THEN NegInf ELSE NaN)
    ELSE Ratio(x.n, x.d * b)

\* x < y on floats: every comparison with nan is false
FLt(x, y) ==
    IF x.kind = "nan" \/ y.kind = "nan" THEN FALSE
    ELSE IF x.kind = "inf" \/ y.kind = "ninf" THEN FALSE
    ELSE IF x.kind = "ninf" \/ y.kind = "inf" THEN TRUE
    ELSE x.n * y.d < y.n * x.d

\* x <= y on floats
FLe(x, y) ==
    IF x.kind = "nan" \/ y.kind = "nan" THEN FALSE
    ELSE IF x.kind = "ninf" \/ y.kind = "inf" THEN TRUE
    ELSE IF x.kind = "inf" \/ y.kind = "ninf" THEN FALSE
    ELSE x.n * y.d <= y.n * x.d

\* x > y on floats
FGt(x, y) == FLt(y, x)

\* x * 100 on floats
FMul100(x) == IF x.kind = "num" THEN Num(x.n * 100, x.d) ELSE x

\* ------------------------------------------------------------------------
\* calculate_max_heart_rate
\* ------------------------------------------------------------------------
MaxHrBase == 220

calculate_max_heart_rate_off(a) == 210 - a

\* the base mistyped as 100
calculate_max_heart_rate_short(a) == 100 - a

calculate_max_heart_rate(a) == MaxHrBase - a

\* ------------------------------------------------------------------------
\* get_intensity_zone
\* ------------------------------------------------------------------------
ZoneRest == [zone |-> "Rest", level |-> "Very Light", color |-> "#94A3B8",
             description |-> "Recovery and rest", range |-> "< 50%"]
Zone1 == [zone |-> "Zone 1", level |-> "Light", color |-> "#10B981",
          description |-> "Warm-up and recovery", range |-> "50-60%"]
Zone2 == [zone |-> "Zone 2", level |-> "Moderate", color |-> "#3B82F6",
          description |-> "Fat burning and endurance", range |-> "60-70%"]
Zone3 == [zone |-> "Zone 3", level |-> "Vigorous", color |-> "#F59E0B",
          description |-> "Aerobic capacity building", range |-> "70-80%"]
Zone4 == [zone |-> "Zone 4", level |-> "Hard", color |-> "#EF4444",
          description |-> "Anaerobic threshold", range |-> "80-90%"]
Zone5 == [zone |-> "Zone 5", level |-> "Maximum", color |-> "#DC2626",
          description |-> "Maximum effort", range |-> "90-100%"]
\* what a caller holds when the function raised instead of returning
NoZone == [zone |-> "none", level |-> "none", color |-> "none",
           description |-> "none", range |-> "none"]

\* hr_percentage = (heart_rate / max_hr) * 100
HrPercentage(hr, mh) ==
    LET q == PyTrueDiv(hr, mh)
    IN  IF q.raised # "none" THEN q ELSE Value(FMul100(q.value))

\* the first two tests of the ladder exchanged
ZoneLadder_swapped(p) ==
    IF FLt(p, Num(60, 1)) THEN Zone1
    ELSE IF FLt(p, Num(50, 1)) THEN ZoneRest
    ELSE IF FLt(p, Num(70, 1)) THEN Zone2
    ELSE IF FLt(p, Num(80, 1)) THEN Zone3
    ELSE IF FLt(p, Num(90, 1)) THEN Zone4
    ELSE Zone5

\* the ladder with <= in place of <
ZoneLadder_inclusive(p) ==
    IF FLe(p, Num(50, 1)) THEN ZoneRest
    ELSE IF FLe(p, Num(60, 1)) THEN Zone1
    ELSE IF FLe(p, Num(70, 1)) THEN Zone2
    ELSE IF FLe(p, Num(80, 1)) THEN Zone3
    ELSE IF FLe(p, Num(90, 1)) THEN Zone4
    ELSE Zone5

\* the ladder ending in `elif hr_percentage < 100` with no else: None above
ZoneLadder_noelse(p) ==
    IF FLt(p, Num(50, 1)) THEN ZoneRest
    ELSE IF FLt(p, Num(60, 1)) THEN Zone1
    ELSE IF FLt(p, Num(70, 1)) THEN Zone2
    ELSE IF FLt(p, Num(80, 1)) THEN Zone3
    ELSE IF FLt(p, Num(90, 1)) THEN Zone4
    ELSE IF FLt(p, Num(100, 1)) THEN Zone5
    ELSE NoZone

\* the if / elif ladder over hr_percentage
ZoneLadder(p) ==
    IF FLt(p, Num(50, 1)) THEN ZoneRest
    ELSE IF FLt(p, Num(60, 1)) THEN Zone1
    ELSE IF FLt(p, Num(70, 1)) THEN Zone2
    ELSE IF FLt(p, Num(80, 1)) THEN Zone3
    ELSE IF FLt(p, Num(90, 1)) THEN Zone4
    ELSE Zone5

\* the function memoised on heart_rate alone: the answer of the previous
\* call comes back when only max_hr differs
get_intensity_zone_memo(hr, mh) ==
    IF fn_call.fn = "get_intensity_zone" /\ fn_call.args.heart_rate = hr THEN
        [raised |-> fn_call.result.raised,
         value |-> fn_call.result.report.intensity_info]
    ELSE LET p == HrPercentage(hr, mh)
         IN  IF p.raised # "none" THEN [raised |-> p.raised, value |-> NoZone]
             ELSE Value(ZoneLadder(p.value))

get_intensity_zone(hr, mh) ==
    LET p == HrPercentage(hr, mh)
    IN  IF p.raised # "none" THEN [raised |-> p.raised, value |-> NoZone]
        ELSE Value(ZoneLadder(p.value))

\* ------------------------------------------------------------------------
\* The ANALYZE branch after model.predict: burn rate, zone, BMI, tier
\* ------------------------------------------------------------------------
\* cal_per_min = prediction / duration, prediction being a numpy.float64
CalPerMin(pred, dur) == NpTrueDiv(pred, dur)

\* bmi = weight / ((height/100) ** 2)
Bmi(w, h) ==
    IF h = 0 THEN Raise("ZeroDivisionError") ELSE Value(Num(w * 10000, h * h))

\* the Normal band closed at 25 instead of 24.9
BmiStatus_upto25(b) ==
    IF FLe(Num(185, 10), b) /\ FLe(b, Num(25, 1)) THEN "Normal"
    ELSE IF FLt(b, Num(185, 10)) THEN "Underweight"
    ELSE "Overweight"

BmiStatus(b) ==
    IF FLe(Num(185, 10), b) /\ FLe(b, Num(249, 10)) THEN "Normal"
    ELSE IF FLt(b, Num(185, 10)) THEN "Underweight"
    ELSE "Overweight"

\* the tiers tested with >= in place of >
RecTitle_inclusive(c) ==
    IF FLe(Num(10, 1), c) THEN "Excellent"
    ELSE IF FLe(Num(7, 1), c) THEN "Good"
    ELSE "Improvement"

RecTitle(c) ==
    IF FGt(c, Num(10, 1)) THEN "Excellent"
    ELSE IF FGt(c, Num(7, 1)) THEN "Good"
    ELSE "Improvement"

\* the statements of the branch in program order; an exception ends it and
\* leaves the later values unset
NoReport == [raised |-> "none", cal_per_min |-> Unset, intensity_info |-> NoZone,
             bmi |-> Unset, bmi_status |-> "unset", rec_title |-> "unset"]

Evaluate(pred, dur, hr, mh, h, w) ==
    LET c == CalPerMin(pred, dur)
        z == get_intensity_zone(hr, mh)
        b == Bmi(w, h)
    IN  IF z.raised # "none" THEN
            [NoReport EXCEPT !.raised = z.raised, !.cal_per_min = c]
        ELSE IF b.raised # "none" THEN
            [NoReport EXCEPT !.raised = b.raised, !.cal_per_min = c,
                             !.intensity_info = z.value]
        ELSE [raised |-> "none", cal_per_min |-> c, intensity_info |-> z.value,
              bmi |-> b.value, bmi_status |-> BmiStatus(b.value),
              rec_title |-> RecTitle(c)]

\* ------------------------------------------------------------------------
\* The functions applied to arguments drawn from bounded sets
\* ------------------------------------------------------------------------
AgeMargin == 1
MaxFnHeartRate == 12
MaxFnMaxHr == 10
MaxFnPrediction == 22
MaxFnDuration == 2

FnAges == (0 - AgeMargin)..(MaxHrBase + AgeMargin)
FnHeartRates == -1..MaxFnHeartRate
FnMaxHrs == 0..MaxFnMaxHr
FnPredictions == 0..MaxFnPrediction
FnDurations == -1..MaxFnDuration
FnHeights == {0, 100, 170, 200, 250}
FnWeights == {30, 53, 70, 72, 74, 200}
FnPulse == {<<140, 195>>, <<140, 0>>, <<220, 120>>}

NoArgs == [age |-> 0, prediction |-> 0, duration |-> 0, heart_rate |-> 0,
           max_hr |-> 0, height |-> 0, weight |-> 0]
NoResult == [raised |-> "none", max_hr |-> 0, report |-> NoReport]

\* ------------------------------------------------------------------------
\* The dashboard: one session of script runs
\* ------------------------------------------------------------------------
MaxVersion == 1

AgeMin == 10
AgeMax == 100
AgeDefault == 25
HeightMin == 100
HeightDefault == 170
WeightDefault == 70
WeightMax == 200
DurationMin == 1
DurationDefault == 30
HeartRateMin == 60
HeartRateMax == 220
HeartRateDefault == 120
\* body temperature in tenths of a degree
BodyTempMin == 360
BodyTempDefault == 375

Genders == {"Male", "Female"}
Ages == {AgeMin, AgeDefault, AgeMax}
Heights == {HeightMin, HeightDefault}
Weights == {WeightDefault, WeightMax}
Durations == {DurationMin, DurationDefault}
HeartRates == {HeartRateMin, HeartRateDefault, HeartRateMax}
BodyTemps == {BodyTempMin, BodyTempDefault}
\* calorie estimates the external model may return
Predictions == {210, 300, 400}

widget_vars == <<gender, age, height, weight, duration, heart_rate, body_temp>>
run_vars == <<predict_btn, pc, error, model, metrics, max_hr, hr_percentage,
              input_data, prediction, report, log, shown>>
app_vars == <<disk, cache, widget_vars, widgets_on_page, run_vars>>
fn_vars == <<fn_call, fn_prev, fn_between>>
vars == <<app_vars, fn_vars>>

EmptyCache == [model |-> 0, metrics |-> 0]
NoInput == [Gender |-> -1, Age |-> 0, Height |-> 0, Weight |-> 0, Duration |-> 0,
            Heart_Rate |-> 0, Body_Temp |-> 0]
NoResults == [prediction |-> Unset, duration |-> 0, heart_rate |-> 0,
              report |-> NoReport]
NoShown == [metrics |-> 0, max_hr |-> 0, hr_percentage |-> Unset,
            results |-> NoResults]

\* load_model without the cache decorator: the files are read on every call
load_model_uncached(c, d) ==
    IF d.model = 0 \/ d.metrics = 0 THEN
        [raised |-> "FileNotFoundError", model |-> 0, metrics |-> 0, cache |-> c]
    ELSE [raised |-> "none", model |-> d.model, metrics |-> d.metrics, cache |-> d]

\* load_model with a body that swallows a missing file and returns None, None
load_model_lenient(c, d) ==
    IF c # EmptyCache THEN
        [raised |-> "none", model |-> c.model, metrics |-> c.metrics, cache |-> c]
    ELSE IF d.model = 0 \/ d.metrics = 0 THEN
        [raised |-> "none", model |-> 0, metrics |-> 0, cache |-> c]
    ELSE [raised |-> "none", model |-> d.model, metrics |-> d.metrics, cache |-> d]

\* load_model under st.cache_resource: the body runs only on a cache miss,
\* and a call that raises stores nothing
load_model(c, d) ==
    IF c # EmptyCache THEN
        [raised |-> "none", model |-> c.model, metrics |-> c.metrics, cache |-> c]
    ELSE IF d.model = 0 THEN
        [raised |-> "FileNotFoundError", model |-> 0, metrics |-> 0, cache |-> c]
    ELSE IF d.metrics = 0 THEN
        [raised |-> "FileNotFoundError", model |-> 0, metrics |-> 0, cache |-> c]
    ELSE [raised |-> "none", model |-> d.model, metrics |-> d.metrics, cache |-> d]

NoCall == [fn |-> "none", args |-> NoArgs, result |-> NoResult]

FnInit ==
    /\ fn_call = NoCall
    /\ fn_prev = NoCall
    /\ fn_between = 0

\* a run starts at the top of the script with nothing bound and nothing shown
FreshRun(btn) ==
    /\ predict_btn = btn
    /\ pc = "load_model"
    /\ error = "none"
    /\ model = 0
    /\ metrics = 0
    /\ max_hr = 0
    /\ hr_percentage = Unset
    /\ input_data = NoInput
    /\ prediction = Unset
    /\ report = NoReport
    /\ log = <<>>
    /\ shown = NoShown

DefaultWidgets ==
    /\ gender = "Male"
    /\ age = AgeDefault
    /\ height = HeightDefault
    /\ weight = WeightDefault
    /\ duration = DurationDefault
    /\ heart_rate = HeartRateDefault
    /\ body_temp = BodyTempDefault

AppInit ==
    /\ disk \in [model : 0..MaxVersion, metrics : 0..MaxVersion]
    /\ cache = EmptyCache
    /\ DefaultWidgets
    /\ widgets_on_page = FALSE
    /\ FreshRun(FALSE)

Init == AppInit /\ FnInit

\* model, metrics = load_model()
LoadModel ==
    /\ pc = "load_model"
    /\ LET r == load_model(cache, disk)
       IN  /\ cache' = r.cache
           /\ model' = r.model
           /\ metrics' = r.metrics
           /\ error' = r.raised
           /\ IF r.raised = "none"
              THEN /\ pc' = "sidebar"
                   /\ log' = Append(log, [op |-> "load_model", obj |-> r.model])
              ELSE /\ pc' = "aborted"
                   /\ log' = log
    /\ UNCHANGED <<disk, widget_vars, widgets_on_page, predict_btn, max_hr,
                   hr_percentage, input_data, prediction, report, shown, fn_vars>>

\* header and sidebar: metrics['r2'] and metrics['mae'] are formatted
Sidebar ==
    /\ pc = "sidebar"
    /\ pc' = "inputs"
    /\ log' = Append(log, [op |-> "metrics", obj |-> metrics])
    /\ shown' = [shown EXCEPT !.metrics = metrics]
    /\ UNCHANGED <<disk, cache, widget_vars, widgets_on_page, predict_btn, error,
                   model, metrics, max_hr, hr_percentage, input_data, prediction,
                   report, fn_vars>>

\* tab1 up to the button: the widgets return the session's values, then
\* max_hr and hr_percentage are computed and shown
Inputs ==
    /\ pc = "inputs"
    /\ widgets_on_page' = TRUE
    /\ LET mh == calculate_max_heart_rate(age)
           p == HrPercentage(heart_rate, mh)
       IN  /\ max_hr' = mh
           /\ hr_percentage' = p.value
           /\ error' = p.raised
           /\ IF p.raised = "none"
              THEN /\ pc' = "branch"
                   /\ shown' = [shown EXCEPT !.max_hr = mh, !.hr_percentage = p.value]
              ELSE /\ pc' = "aborted"
                   /\ shown' = shown
    /\ UNCHANGED <<disk, cache, widget_vars, predict_btn, model, metrics,
                   input_data, prediction, report, log, fn_vars>>

\* if predict_btn: the whole ANALYZE branch
Analyze ==
    /\ pc = "branch"
    /\ predict_btn
    /\ \E p \in Predictions :
          LET data == [Gender |-> IF gender = "Male" THEN 1 ELSE 0, Age |-> age,
                       Height |-> height, Weight |-> weight, Duration |-> duration,
                       Heart_Rate |-> heart_rate, Body_Temp |-> body_temp]
              r == Evaluate(Num(p, 1), duration, heart_rate, max_hr, height, weight)
          IN  /\ input_data' = data
              /\ prediction' = Num(p, 1)
              /\ log' = Append(log, [op |-> "predict", obj |-> model])
              /\ report' = r
              /\ error' = r.raised
              /\ IF r.raised = "none"
                 THEN /\ pc' = "tabs"
                      /\ shown' = [shown EXCEPT !.results =
                                     [prediction |-> Num(p, 1), duration |-> duration,
                                      heart_rate |-> heart_rate, report |-> r]]
                 ELSE /\ pc' = "aborted"
                      /\ shown' = shown
    /\ UNCHANGED <<disk, cache, widget_vars, widgets_on_page, predict_btn, model,
                   metrics, max_hr, hr_percentage, fn_vars>>

\* the button was not pressed: the branch is skipped
SkipAnalyze ==
    /\ pc = "branch"
    /\ ~predict_btn
    /\ pc' = "tabs"
    /\ UNCHANGED <<disk, cache, widget_vars, widgets_on_page, predict_btn, error,
                   model, metrics, max_hr, hr_percentage, input_data, prediction,
                   report, log, shown, fn_vars>>

\* tab2 to tab4 and the footer: metrics is formatted again
Tabs ==
    /\ pc = "tabs"
    /\ pc' = "done"
    /\ log' = Append(log, [op |-> "metrics", obj |-> metrics])
    /\ UNCHANGED <<disk, cache, widget_vars, widgets_on_page, predict_btn, error,
                   model, metrics, max_hr, hr_percentage, input_data, prediction,
                   report, shown, fn_vars>>

\* a rerun that keeps the last analysis (as if held in st.session_state)
Rerun_keeps(btn) ==
    /\ predict_btn' = btn
    /\ pc' = "load_model"
    /\ error' = "none"
    /\ model' = 0
    /\ metrics' = 0
    /\ max_hr' = 0
    /\ hr_percentage' = Unset
    /\ log' = <<>>
    /\ UNCHANGED <<input_data, prediction, report, shown>>

\* any interaction reruns the script from the top; the button reads True only
\* in the run its click started
Rerun(btn) ==
    /\ predict_btn' = btn
    /\ pc' = "load_model"
    /\ error' = "none"
    /\ model' = 0
    /\ metrics' = 0
    /\ max_hr' = 0
    /\ hr_percentage' = Unset
    /\ input_data' = NoInput
    /\ prediction' = Unset
    /\ report' = NoReport
    /\ log' = <<>>
    /\ shown' = NoShown

ChangeGender ==
    /\ widgets_on_page
    /\ \E v \in Genders \ {gender} : gender' = v
    /\ Rerun(FALSE)
    /\ UNCHANGED <<disk, cache, age, height, weight, duration, heart_rate,
                   body_temp, widgets_on_page, fn_vars>>

ChangeAge ==
    /\ widgets_on_page
    /\ \E v \in Ages \ {age} : age' = v
    /\ Rerun(FALSE)
    /\ UNCHANGED <<disk, cache, gender, height, weight, duration, heart_rate,
                   body_temp, widgets_on_page, fn_vars>>

ChangeHeight ==
    /\ widgets_on_page
    /\ \E v \in Heights \ {height} : height' = v
    /\ Rerun(FALSE)
    /\ UNCHANGED <<disk, cache, gender, age, weight, duration, heart_rate,
                   body_temp, widgets_on_page, fn_vars>>

ChangeWeight ==
    /\ widgets_on_page
    /\ \E v \in Weights \ {weight} : weight' = v
    /\ Rerun(FALSE)
    /\ UNCHANGED <<disk, cache, gender, age, height, duration, heart_rate,
                   body_temp, widgets_on_page, fn_vars>>

ChangeDuration ==
    /\ widgets_on_page
    /\ \E v \in Durations \ {duration} : duration' = v
    /\ Rerun(FALSE)
    /\ UNCHANGED <<disk, cache, gender, age, height, weight, heart_rate,
                   body_temp, widgets_on_page, fn_vars>>

ChangeHeartRate ==
    /\ widgets_on_page
    /\ \E v \in HeartRates \ {heart_rate} : heart_rate' = v
    /\ Rerun(FALSE)
    /\ UNCHANGED <<disk, cache, gender, age, height, weight, duration,
                   body_temp, widgets_on_page, fn_vars>>

ChangeBodyTemp ==
    /\ widgets_on_page
    /\ \E v \in BodyTemps \ {body_temp} : body_temp' = v
    /\ Rerun(FALSE)
    /\ UNCHANGED <<disk, cache, gender, age, height, weight, duration,
                   heart_rate, widgets_on_page, fn_vars>>

\* a click on ANALYZE WORKOUT
PressAnalyze ==
    /\ widgets_on_page
    /\ Rerun(TRUE)
    /\ UNCHANGED <<disk, cache, widget_vars, widgets_on_page, fn_vars>>

\* the page is opened again: a new session with the default widget values;
\* the resource cache belongs to the server process and survives
Reload ==
    /\ pc \in {"done", "aborted"}
    /\ gender' = "Male"
    /\ age' = AgeDefault
    /\ height' = HeightDefault
    /\ weight' = WeightDefault
    /\ duration' = DurationDefault
    /\ heart_rate' = HeartRateDefault
    /\ body_temp' = BodyTempDefault
    /\ widgets_on_page' = FALSE
    /\ Rerun(FALSE)
    /\ UNCHANGED <<disk, cache, fn_vars>>

\* the pickle files are replaced, removed or created outside the program
DiskChange ==
    /\ \E f \in {"model", "metrics"}, v \in 0..MaxVersion :
          /\ disk[f] # v
          /\ disk' = [disk EXCEPT ![f] = v]
    /\ UNCHANGED <<cache, widget_vars, widgets_on_page, run_vars, fn_vars>>

Next ==
    \/ LoadModel
    \/ Sidebar
    \/ Inputs
    \/ Analyze
    \/ SkipAnalyze
    \/ Tabs
    \/ ChangeGender
    \/ ChangeAge
    \/ ChangeHeight
    \/ ChangeWeight
    \/ ChangeDuration
    \/ ChangeHeartRate
    \/ ChangeBodyTemp
    \/ PressAnalyze
    \/ Reload
    \/ DiskChange

Spec == Init /\ [][Next]_vars

\* ------------------------------------------------------------------------
\* The functions applied directly to arguments drawn from bounded sets
\* ------------------------------------------------------------------------
CallMaxHeartRate ==
    /\ \E a \in FnAges :
          fn_call' = [fn |-> "calculate_max_heart_rate",
                      args |-> [NoArgs EXCEPT !.age = a],
                      result |-> [NoResult EXCEPT !.max_hr = calculate_max_heart_rate(a)]]
    /\ UNCHANGED <<app_vars, fn_prev, fn_between>>

CallIntensityZone ==
    /\ \E hr \in FnHeartRates, mh \in FnMaxHrs :
          LET z == get_intensity_zone(hr, mh)
          IN  fn_call' = [fn |-> "get_intensity_zone",
                          args |-> [NoArgs EXCEPT !.heart_rate = hr, !.max_hr = mh],
                          result |-> [NoResult EXCEPT
                                        !.raised = z.raised,
                                        !.report = [NoReport EXCEPT !.raised = z.raised,
                                                      !.intensity_info = z.value]]]
    /\ UNCHANGED <<app_vars, fn_prev, fn_between>>

CallEvaluate(pred, dur, hr, mh, h, w) ==
    LET r == Evaluate(Num(pred, 1), dur, hr, mh, h, w)
    IN  fn_call' = [fn |-> "evaluate",
                    args |-> [age |-> 0, prediction |-> pred, duration |-> dur,
                              heart_rate |-> hr, max_hr |-> mh,
                              height |-> h, weight |-> w],
                    result |-> [NoResult EXCEPT !.raised = r.raised, !.report = r]]

\* the burn rate side: prediction and duration vary
EvaluateRate ==
    /\ \E pred \in FnPredictions, dur \in FnDurations :
          CallEvaluate(pred, dur, 140, 195, 170, 70)
    /\ UNCHANGED <<app_vars, fn_prev, fn_between>>

\* the body side: pulse, height and weight vary
EvaluateBody ==
    /\ \E pl \in FnPulse, h \in FnHeights, w \in FnWeights :
          CallEvaluate(300, 30, pl[1], pl[2], h, w)
    /\ UNCHANGED <<app_vars, fn_prev, fn_between>>

FnNext ==
    \/ CallMaxHeartRate
    \/ CallIntensityZone
    \/ EvaluateRate
    \/ EvaluateBody

\* the functions are applied in a process whose files are in place
FnSpecInit == Init /\ disk = [model |-> 1, metrics |-> 1]

SpecFn == FnSpecInit /\ [][FnNext]_vars

\* ------------------------------------------------------------------------
\* The functions applied repeatedly: an earlier application is kept and
\* compared with later ones
\* ------------------------------------------------------------------------
MaxBetween == 2

TwHeartRates == {3, 4, 5}
TwMaxHrs == {0, 5}
TwPulse == {<<140, 195>>, <<220, 120>>}

\* applications to other arguments since the kept one, counted up to MaxBetween
Between(args) ==
    IF fn_prev.fn = "none" \/ fn_prev.args = args THEN fn_between
    ELSE IF fn_between < MaxBetween THEN fn_between + 1 ELSE fn_between

TwiceClassify ==
    /\ \E hr \in TwHeartRates, mh \in TwMaxHrs :
          LET z == get_intensity_zone(hr, mh)
              args == [NoArgs EXCEPT !.heart_rate = hr, !.max_hr = mh]
          IN  /\ fn_call' = [fn |-> "get_intensity_zone",
                             args |-> args,
                             result |-> [NoResult EXCEPT
                                           !.raised = z.raised,
                                           !.report = [NoReport EXCEPT
                                                         !.raised = z.raised,
                                                         !.intensity_info = z.value]]]
              /\ fn_between' = Between(args)
    /\ UNCHANGED <<app_vars, fn_prev>>

TwiceEvaluate ==
    /\ \E pred \in Predictions, dur \in Durations, pl \in TwPulse, h \in Heights :
          /\ CallEvaluate(pred, dur, pl[1], pl[2], h, WeightDefault)
          /\ fn_between' = Between([age |-> 0, prediction |-> pred, duration |-> dur,
                                    heart_rate |-> pl[1], max_hr |-> pl[2],
                                    height |-> h, weight |-> WeightDefault])
    /\ UNCHANGED <<app_vars, fn_prev>>

\* the last application becomes the one later ones are compared with
Remember ==
    /\ fn_call.fn # "none"
    /\ fn_prev' = fn_call
    /\ fn_between' = 0
    /\ UNCHANGED <<app_vars, fn_call>>

TwiceNext ==
    \/ TwiceClassify
    \/ TwiceEvaluate
    \/ Remember

SpecTwice == FnSpecInit /\ [][TwiceNext]_vars

\* ------------------------------------------------------------------------
\* Properties of the functions (checked under SpecFn)
\* ------------------------------------------------------------------------
IsCall(f) == fn_call.fn = f
Arg == fn_call.args
Report == fn_call.result.report

\* calculate_max_heart_rate returns 220 - age on every age of FnAges
MaxHeartRateFormula ==
    IsCall("calculate_max_heart_rate") => fn_call.result.max_hr = 220 - Arg.age

\* zone name and level the half-open table gives for heart_rate / max_hr,
\* max_hr > 0, by cross-multiplication
TableZone(hr, mh) ==
    IF 100 * hr < 50 * mh THEN <<"Rest", "Very Light">>
    ELSE IF 100 * hr < 60 * mh THEN <<"Zone 1", "Light">>
    ELSE IF 100 * hr < 70 * mh THEN <<"Zone 2", "Moderate">>
    ELSE IF 100 * hr < 80 * mh THEN <<"Zone 3", "Vigorous">>
    ELSE IF 100 * hr < 90 * mh THEN <<"Zone 4", "Hard">>
    ELSE <<"Zone 5", "Maximum">>

\* C1: for every heart_rate and every max_hr > 0, get_intensity_zone returns
\* the zone of the ascending first-match ladder on heart_rate / max_hr * 100:
\* < 50 Rest / Very Light, < 60 Zone 1 / Light, < 70 Zone 2 / Moderate,
\* < 80 Zone 3 / Vigorous, < 90 Zone 4 / Hard, otherwise Zone 5 / Maximum.
C1_ZoneFollowsLadder ==
    (IsCall("get_intensity_zone") /\ Arg.max_hr > 0) =>
        /\ fn_call.result.raised = "none"
        /\ <<Report.intensity_info.zone, Report.intensity_info.level>>
              = TableZone(Arg.heart_rate, Arg.max_hr)

\* a percentage strictly inside 70..80 classified as Zone 3 / Vigorous
C1_Witness ==
    /\ IsCall("get_intensity_zone")
    /\ Arg.max_hr > 0
    /\ 100 * Arg.heart_rate > 70 * Arg.max_hr
    /\ 100 * Arg.heart_rate < 80 * Arg.max_hr
    /\ Report.intensity_info.zone = "Zone 3"
    /\ Report.intensity_info.level = "Vigorous"

\* the zone above each edge value
EdgeZone(k) ==
    IF k = 50 THEN "Zone 1" ELSE IF k = 60 THEN "Zone 2" ELSE IF k = 70 THEN "Zone 3"
    ELSE IF k = 80 THEN "Zone 4" ELSE "Zone 5"

\* C2: when heart_rate / max_hr * 100 is exactly 50, 60, 70, 80 or 90
\* (max_hr > 0) the zone returned is the higher neighbour: Zone 1, Zone 2,
\* Zone 3, Zone 4, Zone 5.
C2_EdgeGoesToHigherZone ==
    \A k \in {50, 60, 70, 80, 90} :
        (/\ IsCall("get_intensity_zone")
         /\ Arg.max_hr > 0
         /\ 100 * Arg.heart_rate = k * Arg.max_hr) =>
            Report.intensity_info.zone = EdgeZone(k)

\* exactly 60 percent with a max_hr other than 10 (3 of 5), giving Zone 2
C2_Witness ==
    /\ IsCall("get_intensity_zone")
    /\ Arg.max_hr = 5
    /\ Arg.heart_rate = 3
    /\ Report.intensity_info.zone = "Zone 2"

ZoneOrder == <<"Rest", "Zone 1", "Zone 2", "Zone 3", "Zone 4", "Zone 5">>
SixZones == {ZoneRest, Zone1, Zone2, Zone3, Zone4, Zone5}
Rank(z) == CHOOSE i \in 1..6 : ZoneOrder[i] = z.zone

\* C3: for heart_rate >= 0 and max_hr > 0 the function returns one of the six
\* zones, and the zones cut the percentage axis into consecutive pieces: an
\* input with the same percentage gets the same zone, one with a smaller
\* percentage never gets a later zone, one with a larger never an earlier.
C3_ZonesPartitionAxis ==
    (IsCall("get_intensity_zone") /\ Arg.heart_rate >= 0 /\ Arg.max_hr > 0) =>
        /\ fn_call.result.raised = "none"
        /\ Report.intensity_info \in SixZones
        /\ \A hr \in FnHeartRates, mh \in FnMaxHrs :
              (hr >= 0 /\ mh > 0) =>
                  LET other == get_intensity_zone(hr, mh)
                  IN  /\ other.raised = "none"
                      /\ other.value \in SixZones
                      /\ (hr * Arg.max_hr <= Arg.heart_rate * mh
                             => Rank(other.value) <= Rank(Report.intensity_info))
                      /\ (hr * Arg.max_hr >= Arg.heart_rate * mh
                             => Rank(other.value) >= Rank(Report.intensity_info))

\* a percentage above 100 (12 of 10) still has a zone, the last one
C3_Witness ==
    /\ IsCall("get_intensity_zone")
    /\ Arg.heart_rate > Arg.max_hr
    /\ Arg.max_hr > 0
    /\ Report.intensity_info = Zone5

\* C5: computing the burn rate with duration <= 0 fails with InvalidInput
\* before any result is produced: no burn rate, no recommendation tier.
C5_NonPositiveDurationRejected ==
    (IsCall("evaluate") /\ Arg.duration <= 0) =>
        /\ fn_call.result.raised = "InvalidInput"
        /\ Report.cal_per_min.kind \notin {"inf", "ninf", "nan"}
        /\ Report.rec_title = "unset"

\* C6: classifying with max_hr = 0 ends in an error and returns no zone.
C6_ZeroMaxHrRaises ==
    (IsCall("get_intensity_zone") /\ Arg.max_hr = 0) =>
        /\ fn_call.result.raised \in {"ZeroDivisionError", "InvalidInput"}
        /\ Report.intensity_info = NoZone

\* a positive heart rate over max_hr = 0 raised ZeroDivisionError
C6_Witness ==
    /\ IsCall("get_intensity_zone")
    /\ Arg.max_hr = 0
    /\ Arg.heart_rate > 0
    /\ fn_call.result.raised = "ZeroDivisionError"

\* C7: the max heart rate estimate fails with InvalidInput when age <= 0 or
\* age >= 220.
C7_DegenerateAgeRejected ==
    (IsCall("calculate_max_heart_rate") /\ (Arg.age <= 0 \/ Arg.age >= 220)) =>
        fn_call.result.raised = "InvalidInput"

\* tier the thresholds give for prediction / duration, duration # 0
TableTier(pred, dur) ==
    LET above(k) == IF dur > 0 THEN pred > k * dur ELSE pred < k * dur
    IN  IF above(10) THEN "Excellent" ELSE IF above(7) THEN "Good" ELSE "Improvement"

\* C8: the tier is decided by cal_per_min = prediction / duration, tested
\* high to low with strict comparisons: > 10 Excellent, > 7 Good, otherwise
\* Improvement; exactly 10 is Good and exactly 7 is Improvement.
C8_TierFollowsThresholds ==
    (IsCall("evaluate") /\ Arg.duration # 0 /\ fn_call.result.raised = "none") =>
        /\ Report.rec_title = TableTier(Arg.prediction, Arg.duration)
        /\ Report.rec_title \in {"Excellent", "Good", "Improvement"}

\* exactly 10 calories per minute (300 in 30 minutes) rated Good
C8_Witness ==
    /\ IsCall("evaluate")
    /\ Arg.prediction = 300
    /\ Arg.duration = 30
    /\ fn_call.result.raised = "none"
    /\ Report.rec_title = "Good"

\* status the thresholds give for weight / (height/100)^2, height > 0;
\* bmi * 10 = weight * 100000 / height^2
TableBmiStatus(w, h) ==
    IF w * 100000 < 185 * h * h THEN "Underweight"
    ELSE IF w * 100000 <= 249 * h * h THEN "Normal"
    ELSE "Overweight"

\* C9: with bmi = weight / (height/100)^2 and height > 0 the status is
\* Underweight below 18.5, Normal from 18.5 to 24.9 inclusive, Overweight
\* for everything else, values between 24.9 and 25 included.
C9_BmiStatusFollowsThresholds ==
    (IsCall("evaluate") /\ Arg.height > 0 /\ fn_call.result.raised = "none") =>
        /\ Report.bmi_status = TableBmiStatus(Arg.weight, Arg.height)
        /\ Report.bmi_status \in {"Underweight", "Normal", "Overweight"}

\* weight 72, height 170: a bmi between 24.9 and 25, Overweight
C9_Witness ==
    /\ IsCall("evaluate")
    /\ Arg.weight = 72
    /\ Arg.height = 170
    /\ Arg.weight * 100000 > 249 * Arg.height * Arg.height
    /\ Arg.weight * 10000 < 25 * Arg.height * Arg.height
    /\ Report.bmi_status = "Overweight"

\* ------------------------------------------------------------------------
\* Properties of the dashboard (checked under Spec)
\* ------------------------------------------------------------------------
\* C4: calculate_max_heart_rate(age) is 220 - age (195 for age 25), and the
\* max_hr behind the displayed percentage and behind the zone is that value
\* for the age the slider holds in this run.
C4_MaxHrIs220MinusSelectedAge ==
    /\ pc \in {"branch", "tabs", "done"} =>
          /\ max_hr = 220 - age
          /\ shown.max_hr = 220 - age
          /\ shown.hr_percentage.kind = "num"
          /\ shown.hr_percentage.n * (220 - age)
                = 100 * heart_rate * shown.hr_percentage.d
    /\ report.intensity_info # NoZone =>
          <<report.intensity_info.zone, report.intensity_info.level>>
              = TableZone(heart_rate, 220 - age)
    /\ (age = 25 /\ max_hr # 0) => max_hr = 195

\* the age slider moved to 100: max_hr 120, and 220 bpm analysed against it
C4_Witness ==
    /\ pc = "done"
    /\ age = 100
    /\ heart_rate = 220
    /\ max_hr = 120
    /\ shown.max_hr = 120
    /\ shown.results.report.intensity_info.zone = "Zone 5"

\* every use of the model or of metrics in this run follows a load_model
\* that returned, and uses a loaded object; a run whose load failed stopped
\* there with nothing computed and nothing shown
LoadedBeforeUse ==
    /\ \A i \in 1..Len(log) :
          log[i].op \in {"predict", "metrics"} =>
              /\ \E j \in 1..(i - 1) : log[j].op = "load_model"
              /\ log[i].obj # 0
              /\ log[i].obj = (IF log[i].op = "predict" THEN cache.model
                               ELSE cache.metrics)
    /\ error = "FileNotFoundError" =>
          /\ pc = "aborted"
          /\ log = <<>>
          /\ shown = NoShown
          /\ prediction = Unset
          /\ report = NoReport

\* once loaded, the cached pair never changes, every later run binds that
\* very pair at line 221, the bound globals stay as bound for the rest of
\* the run, and an aborted run takes no further step
FrozenAfterLoad ==
    /\ cache # EmptyCache => cache' = cache
    /\ (cache # EmptyCache /\ pc = "load_model" /\ pc' # "load_model") =>
          /\ pc' = "sidebar"
          /\ model' = cache.model
          /\ metrics' = cache.metrics
    /\ (model # 0 /\ pc' # "load_model") => (model' = model /\ metrics' = metrics)
    /\ pc = "aborted" => pc' \in {"aborted", "load_model"}

\* C10: the model and metrics are loaded before anything is served and are
\* not modified afterwards: predict and every read of metrics come after a
\* successful load_model in the same run; a failed load aborts the run with
\* no prediction, metric or result; no slider change, button press or change
\* of the files alters the loaded pair.
C10_LoadedBeforeUseThenFrozen ==
    /\ []LoadedBeforeUse
    /\ [][FrozenAfterLoad]_vars

\* an analysis completed with the loaded model although calories_model.pkl
\* has since disappeared from the disk
C10_Witness ==
    /\ pc = "done"
    /\ disk.model = 0
    /\ model # 0
    /\ model = cache.model
    /\ shown.metrics = cache.metrics
    /\ \E i \in 1..Len(log) : log[i].op = "predict"

C12_RangeLabelContainsPercentage ==
    LET z == report.intensity_info
        hr == heart_rate
        mh == 220 - age
        within(lo, hi) == lo * mh <= 100 * hr /\ 100 * hr < hi * mh
    IN  z # NoZone =>
            /\ z.range = "< 50%" => 100 * hr < 50 * mh
            /\ z.range = "50-60%" => within(50, 60)
            /\ z.range = "60-70%" => within(60, 70)
            /\ z.range = "70-80%" => within(70, 80)
            /\ z.range = "80-90%" => within(80, 90)
            /\ z.range = "90-100%" => (90 * mh <= 100 * hr /\ 100 * hr <= 100 * mh)

SliderRanges ==
    /\ age \in 10..100
    /\ height \in 100..250
    /\ weight \in 30..200
    /\ duration \in 1..300
    /\ heart_rate \in 60..220

IsFinite(x) == x.kind = "unset" \/ (x.kind = "num" /\ x.d > 0)

\* C13: in every state the widgets can produce, the three divisors are
\* strictly positive (max_hr in 120..210, duration >= 1, height >= 100), so
\* the percentage, the burn rate and the BMI are never divided by zero or by
\* a negative number: no run ends in ZeroDivisionError and no inf or nan
\* appears.
C13_DivisorsPositive ==
    /\ SliderRanges
    /\ pc \in {"branch", "tabs", "done"} => max_hr \in 120..210
    /\ error # "ZeroDivisionError"
    /\ pc = "aborted" => error = "FileNotFoundError"
    /\ IsFinite(hr_percentage)
    /\ IsFinite(report.cal_per_min)
    /\ IsFinite(report.bmi)
    /\ report.cal_per_min.kind = "num" =>
          report.cal_per_min.d = prediction.d * duration
    /\ report.bmi.kind = "num" => report.bmi.d = height * height

\* the smallest divisors the sliders reach (age 100, duration 1, height
\* 100) in an analysis that completed
C13_Witness ==
    /\ pc = "done"
    /\ predict_btn
    /\ age = 100
    /\ max_hr = 120
    /\ duration = 1
    /\ height = 100
    /\ error = "none"
    /\ report.cal_per_min.kind = "num"
    /\ report.bmi.kind = "num"

Predicts == Cardinality({i \in 1..Len(log) : log[i].op = "predict"})

RunInputs ==
    [Gender |-> IF gender = "Male" THEN 1 ELSE 0, Age |-> age, Height |-> height,
     Weight |-> weight, Duration |-> duration, Heart_Rate |-> heart_rate,
     Body_Temp |-> body_temp]

\* C14: model.predict is called only in a run the button started, once, on
\* this run's widget values (Male 1, Female 0, the other six unchanged); the
\* zone, burn rate, BMI status and tier shown come from those same values; a
\* run without a press shows no results, so nothing computed from earlier
\* inputs stands next to newer inputs.
C14_PredictOnceOnRunInputs ==
    /\ Predicts <= 1
    /\ Predicts = 1 => (predict_btn /\ input_data = RunInputs /\ prediction # Unset)
    /\ Predicts = 0 => (input_data = NoInput /\ prediction = Unset
                          /\ report = NoReport /\ shown.results = NoResults)
    /\ (predict_btn /\ pc \in {"tabs", "done"}) => Predicts = 1
    /\ ~predict_btn => Predicts = 0
    /\ shown.results # NoResults =>
          /\ Predicts = 1
          /\ shown.results.prediction = prediction
          /\ shown.results.duration = duration
          /\ shown.results.heart_rate = heart_rate
          /\ shown.results.report = report
          /\ report.cal_per_min.n * duration = prediction.n * report.cal_per_min.d
          /\ <<report.intensity_info.zone, report.intensity_info.level>>
                = TableZone(heart_rate, 220 - age)
          /\ report.bmi_status = TableBmiStatus(weight, height)
          /\ report.rec_title = TableTier(prediction.n, duration)

\* gender, age and temperature were changed, then the button pressed: the
\* model saw Female as 0 with the new age and temperature, once
C14_Witness ==
    /\ pc = "done"
    /\ predict_btn
    /\ Predicts = 1
    /\ gender = "Female"
    /\ input_data.Gender = 0
    /\ input_data.Age = 100
    /\ input_data.Body_Temp = 360
    /\ shown.results.duration = duration
    /\ shown.results.report.rec_title = "Excellent"

====
